---- MODULE Spec2Model ----
(***************************************************************************)
(* Model of the image-extract service: the retry/backoff client            *)
(* process_image_to_json (image_processor.py) and the POST /extract        *)
(* endpoint extract_id_data (api.py) that calls it.                        *)
(*                                                                         *)
(* Python strings that the code inspects character by character (the       *)
(* model's JSON text, the upload's content type) are sequences of          *)
(* one-character strings.  Python values are tagged records [t, v].        *)
(***************************************************************************)
EXTENDS Integers, Sequences, FiniteSets, TLC

(***************************************************************************)
(* Bounds of the model.                                                    *)
(***************************************************************************)
\* largest max_retries a direct caller of process_image_to_json passes
MaxRetriesBound == 4

(***************************************************************************)
(* Python values.                                                          *)
(***************************************************************************)
PyNone == [t |-> "None"]
PyBool(b) == [t |-> "bool", v |-> b]
PyInt(n) == [t |-> "int", v |-> n]
\* a float is the fraction num / den in lowest decimal terms (den a power of
\* ten), or, with den = 0, nan (num = 0), inf (num = 1) or -inf (num = -1)
PyFloat(num, den) == [t |-> "float", v |-> [num |-> num, den |-> den]]
NaN == PyFloat(0, 0)
PosInf == PyFloat(1, 0)
NegInf == PyFloat(-1, 0)
PyStr(s) == [t |-> "str", v |-> s]
\* a str kept as its sequence of characters
PyChars(s) == [t |-> "chars", v |-> s]
PyList(s) == [t |-> "list", v |-> s]
PyTuple(s) == [t |-> "tuple", v |-> s]
PyDict(f) == [t |-> "dict", v |-> f]

EmptyDict == PyDict(<<>>)

\* Python truth value testing: `if x`, `not x`, `x and y`
Truthy(x) ==
    CASE x.t = "None" -> FALSE
      [] x.t = "bool" -> x.v
      [] x.t = "int" -> x.v # 0
      [] x.t = "float" -> ~(x.v.num = 0 /\ x.v.den # 0)
      [] x.t = "str" -> x.v # ""
      [] x.t = "chars" -> x.v # <<>>
      [] x.t \in {"list", "tuple"} -> x.v # <<>>
      [] x.t = "dict" -> DOMAIN x.v # {}

\* isinstance(x, dict)
IsDict(x) == x.t = "dict"

\* dict.get(key, default)
DictGet(d, key, default) == IF key \in DOMAIN d.v THEN d.v[key] ELSE default

(***************************************************************************)
(* json.loads, on texts made of the characters  { } [ ] " : , . + -         *)
(* space, tab, line feed, carriage return, letters and digits.  Outside    *)
(* the model: the backslash (string escapes), and numbers whose digits     *)
(* do not fit a 32-bit integer or whose value leaves the range of a        *)
(* double.                                                                 *)
(***************************************************************************)
Digits == {"0", "1", "2", "3", "4", "5", "6", "7", "8", "9"}

DigitVal(c) ==
    CASE c = "0" -> 0 [] c = "1" -> 1 [] c = "2" -> 2 [] c = "3" -> 3
      [] c = "4" -> 4 [] c = "5" -> 5 [] c = "6" -> 6 [] c = "7" -> 7
      [] c = "8" -> 8 [] c = "9" -> 9

\* the str made of the characters of s
RECURSIVE Join(_)
Join(s) == IF s = <<>> THEN "" ELSE Head(s) \o Join(Tail(s))

\* a scanner's result: a decoded value and the index after it, or no match
NoMatch == [ok |-> FALSE]
Matched(val, end) == [ok |-> TRUE, val |-> val, end |-> end]

\* s[i:i+len(lit)] == lit
StartsAt(s, i, lit) ==
    /\ i + Len(lit) - 1 <= Len(s)
    /\ SubSeq(s, i, i + Len(lit) - 1) = lit

\* WHITESPACE.match(s, i).end()
RECURSIVE SkipWs(_, _)
SkipWs(s, i) ==
    IF i <= Len(s) /\ s[i] \in {" ", "\t", "\n", "\r"} THEN SkipWs(s, i + 1) ELSE i

\* index of the first '"' at or after i, or 0 when the string is not
\* terminated or a control character comes first
RECURSIVE FindQuote(_, _)
FindQuote(s, i) ==
    IF i > Len(s) THEN 0
    ELSE IF s[i] = "\"" THEN i
    ELSE IF s[i] \in {"\t", "\n", "\r"} THEN 0
    ELSE FindQuote(s, i + 1)

\* scanstring(s, i): i is the index after the opening quote
ScanString(s, i) ==
    LET j == FindQuote(s, i) IN
    IF j = 0 THEN NoMatch
    ELSE Matched(PyStr(Join(SubSeq(s, i, j - 1))), j + 1)

\* index after the run of digits starting at i
RECURSIVE DigitsEnd(_, _)
DigitsEnd(s, i) ==
    IF i <= Len(s) /\ s[i] \in Digits THEN DigitsEnd(s, i + 1) ELSE i

\* int(s[i:j]) for a run of digits
RECURSIVE ToNat(_, _, _)
ToNat(s, i, j) ==
    IF j <= i THEN 0 ELSE ToNat(s, i, j - 1) * 10 + DigitVal(s[j - 1])

RECURSIVE Pow10(_)
Pow10(n) == IF n = 0 THEN 1 ELSE 10 * Pow10(n - 1)

\* num / den with the common factors of ten removed
RECURSIVE Reduce(_, _)
Reduce(num, den) ==
    IF num = 0 THEN PyFloat(0, 1)
    ELSE IF den > 1 /\ num % 10 = 0 THEN Reduce(num \div 10, den \div 10)
    ELSE PyFloat(num, den)

\* NUMBER_RE: (-?(?:0|[1-9][0-9]*)) (\.[0-9]+)? ([eE][-+]?[0-9]+)?
\* the index after the integer part of a match at i, or 0 when there is no match
IntEnd(s, i) ==
    LET d0 == IF s[i] = "-" THEN i + 1 ELSE i IN
    IF ~(d0 <= Len(s) /\ s[d0] \in Digits) THEN 0
    ELSE IF s[d0] = "0" THEN d0 + 1
    ELSE DigitsEnd(s, d0)

\* the index after the fraction, for an integer part that ends before j
FracEnd(s, j) ==
    IF j + 1 <= Len(s) /\ s[j] = "." /\ s[j + 1] \in Digits
    THEN DigitsEnd(s, j + 2)
    ELSE j

\* the index of the first digit of the exponent, for a fraction that ends
\* before j, or 0 when there is no exponent
ExpStart(s, j) ==
    IF ~(j + 1 <= Len(s) /\ s[j] \in {"e", "E"}) THEN 0
    ELSE IF s[j + 1] \in Digits THEN j + 1
    ELSE IF s[j + 1] \in {"+", "-"} /\ j + 2 <= Len(s) /\ s[j + 2] \in Digits
    THEN j + 2
    ELSE 0

\* the int or float of a match: integer part s[i .. intEnd - 1], fraction up
\* to fracEnd - 1, exponent digits from e0 (0: none)
MakeNumber(s, i, intEnd, fracEnd, e0) ==
    LET sign == IF s[i] = "-" THEN -1 ELSE 1
        d0 == IF s[i] = "-" THEN i + 1 ELSE i
        fracLen == IF fracEnd = intEnd THEN 0 ELSE fracEnd - (intEnd + 1)
        exp == IF e0 = 0 THEN 0
               ELSE IF s[e0 - 1] = "-" THEN 0 - ToNat(s, e0, DigitsEnd(s, e0))
               ELSE ToNat(s, e0, DigitsEnd(s, e0))
        mantissa == IF fracEnd = intEnd THEN ToNat(s, d0, intEnd)
                    ELSE ToNat(s, d0, intEnd) * Pow10(fracLen)
                         + ToNat(s, intEnd + 1, fracEnd)
    IN  IF fracEnd = intEnd /\ e0 = 0
        THEN Matched(PyInt(sign * mantissa), intEnd)
        ELSE Matched(IF exp >= fracLen
                     THEN Reduce(sign * mantissa * Pow10(exp - fracLen), 1)
                     ELSE Reduce(sign * mantissa, Pow10(fracLen - exp)),
                     IF e0 = 0 THEN fracEnd ELSE DigitsEnd(s, e0))

\* NUMBER_RE.match(s, i) and what the scanner makes of it
ScanNumber(s, i) ==
    IF IntEnd(s, i) = 0 THEN NoMatch
    ELSE MakeNumber(s, i, IntEnd(s, i), FracEnd(s, IntEnd(s, i)),
                    ExpStart(s, FracEnd(s, IntEnd(s, i))))

RECURSIVE scan_once(_, _), ObjectLoop(_, _, _), ArrayLoop(_, _, _)

\* JSONObject: i is the index after '{'
JSONObject(s, i) ==
    LET j == SkipWs(s, i) IN
    IF j > Len(s) THEN NoMatch
    ELSE IF s[j] = "}" THEN Matched(EmptyDict, j + 1)
    ELSE IF s[j] # "\"" THEN NoMatch
    ELSE ObjectLoop(s, j + 1, <<>>)

\* the `while True` of JSONObject: i is the index after a key's opening quote
ObjectLoop(s, i, pairs) ==
    LET key == ScanString(s, i) IN
    IF ~key.ok THEN NoMatch ELSE
    LET colon == SkipWs(s, key.end) IN
    IF colon > Len(s) \/ s[colon] # ":" THEN NoMatch ELSE
    LET value == scan_once(s, SkipWs(s, colon + 1)) IN
    IF ~value.ok THEN NoMatch ELSE
    LET pairs2 == (key.val.v :> value.val) @@ pairs   \* a repeated key: the last wins
        nxt == SkipWs(s, value.end)
    IN
    IF nxt > Len(s) THEN NoMatch
    ELSE IF s[nxt] = "}" THEN Matched(PyDict(pairs2), nxt + 1)
    ELSE IF s[nxt] # "," THEN NoMatch
    ELSE LET q == SkipWs(s, nxt + 1) IN
         IF q > Len(s) \/ s[q] # "\"" THEN NoMatch
         ELSE ObjectLoop(s, q + 1, pairs2)

\* JSONArray: i is the index after '['
JSONArray(s, i) ==
    LET j == SkipWs(s, i) IN
    IF j > Len(s) THEN NoMatch
    ELSE IF s[j] = "]" THEN Matched(PyList(<<>>), j + 1)
    ELSE ArrayLoop(s, j, <<>>)

\* the `while True` of JSONArray: i is the index of the next element
ArrayLoop(s, i, values) ==
    LET value == scan_once(s, i) IN
    IF ~value.ok THEN NoMatch ELSE
    LET values2 == Append(values, value.val)
        nxt == SkipWs(s, value.end)
    IN
    IF nxt > Len(s) THEN NoMatch
    ELSE IF s[nxt] = "]" THEN Matched(PyList(values2), nxt + 1)
    ELSE IF s[nxt] # "," THEN NoMatch
    ELSE ArrayLoop(s, SkipWs(s, nxt + 1), values2)

\* the scanner's _scan_once
scan_once(s, i) ==
    IF i > Len(s) THEN NoMatch
    ELSE IF s[i] = "\"" THEN ScanString(s, i + 1)
    ELSE IF s[i] = "{" THEN JSONObject(s, i + 1)
    ELSE IF s[i] = "[" THEN JSONArray(s, i + 1)
    ELSE IF StartsAt(s, i, <<"n", "u", "l", "l">>) THEN Matched(PyNone, i + 4)
    ELSE IF StartsAt(s, i, <<"t", "r", "u", "e">>) THEN Matched(PyBool(TRUE), i + 4)
    ELSE IF StartsAt(s, i, <<"f", "a", "l", "s", "e">>) THEN Matched(PyBool(FALSE), i + 5)
    ELSE IF IntEnd(s, i) # 0 THEN ScanNumber(s, i)
    ELSE IF StartsAt(s, i, <<"N", "a", "N">>) THEN Matched(NaN, i + 3)
    ELSE IF StartsAt(s, i, <<"I", "n", "f", "i", "n", "i", "t", "y">>)
    THEN Matched(PosInf, i + 8)
    ELSE IF StartsAt(s, i, <<"-", "I", "n", "f", "i", "n", "i", "t", "y">>)
    THEN Matched(NegInf, i + 9)
    ELSE NoMatch

\* json.loads(s): [ok |-> TRUE, val |-> the value], or [ok |-> FALSE] for
\* json.JSONDecodeError
json_loads(s) ==
    LET r == scan_once(s, SkipWs(s, 1)) IN
    IF ~r.ok THEN NoMatch
    ELSE IF SkipWs(s, r.end) # Len(s) + 1 THEN NoMatch   \* "Extra data"
    ELSE [ok |-> TRUE, val |-> r.val]

(***************************************************************************)
(* base64.b64encode(image_bytes).decode("utf-8")                           *)
(***************************************************************************)
B64Alphabet ==
    << "A", "B", "C", "D", "E", "F", "G", "H", "I", "J", "K", "L", "M",
       "N", "O", "P", "Q", "R", "S", "T", "U", "V", "W", "X", "Y", "Z",
       "a", "b", "c", "d", "e", "f", "g", "h", "i", "j", "k", "l", "m",
       "n", "o", "p", "q", "r", "s", "t", "u", "v", "w", "x", "y", "z",
       "0", "1", "2", "3", "4", "5", "6", "7", "8", "9", "+", "/" >>

B64(n) == B64Alphabet[n + 1]

RECURSIVE b64encode(_)
b64encode(b) ==
    IF Len(b) = 0 THEN <<>>
    ELSE IF Len(b) = 1
    THEN << B64(b[1] \div 4), B64((b[1] % 4) * 16), "=", "=" >>
    ELSE IF Len(b) = 2
    THEN << B64(b[1] \div 4), B64((b[1] % 4) * 16 + b[2] \div 16),
            B64((b[2] % 16) * 4), "=" >>
    ELSE << B64(b[1] \div 4), B64((b[1] % 4) * 16 + b[2] \div 16),
            B64((b[2] % 16) * 4 + b[3] \div 64), B64(b[3] % 64) >>
         \o b64encode(SubSeq(b, 4, Len(b)))

bytes_to_base64(image_bytes) == PyChars(b64encode(image_bytes))

(***************************************************************************)
(* Configuration and inputs.                                               *)
(***************************************************************************)
\* default of the max_retries parameter
DefaultMaxRetries == 5

\* values of os.getenv("GEMINI_API_KEY", "")
KeySet == {PyStr(""), PyStr("secret")}

\* max_retries of a direct call of process_image_to_json
RetriesSet == -1 .. MaxRetriesBound

\* texts a candidate's first part may carry
TxtPerson == <<"{", "\"", "N", "a", "m", "e", "\"", ":", "\"", "J", "a", "n", "e", " ", "D", "o", "e", "\"", ",", "\"", "I", "D", "N", "u", "m", "b", "e", "r", "\"", ":", "\"", "X", "1", "2", "3", "\"", ",", "\"", "O", "c", "c", "u", "p", "a", "t", "i", "o", "n", "\"", ":", "\"", "\"", "}">>
TxtEmptyObject == <<"{", "}">>
TxtErrorField == <<"{", "\"", "e", "r", "r", "o", "r", "\"", ":", "\"", "x", "\"", "}">>
TxtErrorBlank == <<"{", "\"", "e", "r", "r", "o", "r", "\"", ":", "\"", "\"", ",", "\"", "N", "a", "m", "e", "\"", ":", "\"", "J", "\"", "}">>
TxtNull == <<"n", "u", "l", "l">>
TxtList == <<"[", "1", ",", " ", "t", "r", "u", "e", "]">>
TxtZero == <<"0">>
TxtTruncated == <<"{", "\"", "N", "a", "m", "e", "\"", ":">>
TxtProse == <<"s", "o", "r", "r", "y">>
TxtBlank == <<>>
TxtNaN == <<"N", "a", "N">>
TxtInfinityField == <<"{", "\"", "a", "\"", ":", "-", "I", "n", "f", "i", "n", "i", "t", "y", "}">>
TxtPretty == <<"{", "\n", " ", "\"", "A", "g", "e", "\"", ":", " ", "-", "1", ".", "5", "0", "\n", "}">>

TextSet == { TxtPerson, TxtEmptyObject, TxtErrorField, TxtErrorBlank, TxtNull,
             TxtList, TxtZero, TxtTruncated, TxtProse, TxtBlank,
             TxtNaN, TxtInfinityField, TxtPretty }

\* what the texts above decode to, written out by hand
PersonValue ==
    PyDict([Name |-> PyStr("Jane Doe"), IDNumber |-> PyStr("X123"),
            Occupation |-> PyStr("")])
ErrorFieldValue == PyDict([error |-> PyStr("x")])
ErrorBlankValue == PyDict([error |-> PyStr(""), Name |-> PyStr("J")])
ListValue == PyList(<<PyInt(1), PyBool(TRUE)>>)
InfinityFieldValue == PyDict([a |-> NegInf])
PrettyValue == PyDict([Age |-> PyFloat(-15, 10)])

\* the documents response.json() may give
Part(text) == PyDict([text |-> PyChars(text)])
Candidate(text) ==
    PyDict([content |-> PyDict([parts |-> PyList(<<Part(text)>>),
                                role |-> PyStr("model")]),
            finishReason |-> PyStr("STOP")])
DocText(text) == PyDict([candidates |-> PyList(<<Candidate(text)>>)])
DocNoCandidates == PyDict([promptFeedback |-> PyDict([blockReason |-> PyStr("SAFETY")])])
DocEmptyCandidates == PyDict([candidates |-> PyList(<<>>)])
DocEmptyCandidate == PyDict([candidates |-> PyList(<<EmptyDict>>)])
DocNoContent == PyDict([candidates |-> PyList(<<PyDict([finishReason |-> PyStr("SAFETY")])>>)])
DocNoParts ==
    PyDict([candidates |-> PyList(<<PyDict([content |-> PyDict([role |-> PyStr("model")])])>>)])
DocEmptyParts ==
    PyDict([candidates |-> PyList(<<PyDict([content |-> PyDict([parts |-> PyList(<<>>)])])>>)])
DocPartNoText ==
    PyDict([candidates |-> PyList(<<PyDict([content |->
        PyDict([parts |-> PyList(<<PyDict([inlineData |-> EmptyDict])>>)])])>>)])
DocTwoCandidates ==
    PyDict([candidates |-> PyList(<<
        PyDict([content |-> PyDict([parts |-> PyList(<<Part(TxtPerson), Part(TxtProse)>>)])]),
        Candidate(TxtEmptyObject) >>)])

\* documents of another shape: the body `[]`, a null candidates, a null text
DocNotObject == PyList(<<>>)
DocNullCandidates == PyDict([candidates |-> PyNone])
DocTextNull ==
    PyDict([candidates |-> PyList(<<PyDict([content |->
        PyDict([parts |-> PyList(<<PyDict([text |-> PyNone])>>)])])>>)])

DocSet == { DocText(t) : t \in TextSet }
          \cup { DocNoCandidates, DocEmptyCandidates, DocEmptyCandidate, DocNoContent,
                 DocNoParts, DocEmptyParts, DocPartNoText, DocTwoCandidates,
                 DocNotObject, DocNullCandidates, DocTextNull }

\* what one requests.post may bring: a network-level failure, or a response
\* with a status code and a body that is a JSON document or is not JSON
NetworkError == [kind |-> "error"]
JsonBody(doc) == [json |-> TRUE, doc |-> doc]
OtherBody == [json |-> FALSE]
HttpResponse(status_code, body) ==
    [kind |-> "http", status_code |-> status_code, body |-> body]

ErrorStatusSet == {400, 403, 404, 429, 500, 502, 503}

\* a status outside 400 .. 599, which raise_for_status() lets pass
UnassignedStatus == 600

ResponseSet ==
    {NetworkError}
    \cup { HttpResponse(200, JsonBody(d)) : d \in DocSet }
    \cup { HttpResponse(200, OtherBody) }
    \cup { HttpResponse(st, OtherBody) : st \in ErrorStatusSet }
    \cup { HttpResponse(UnassignedStatus, JsonBody(DocText(TxtPerson))),
           HttpResponse(UnassignedStatus, OtherBody) }

\* uploads: whether file.read() succeeds, the bytes, the declared content type
MimeJpeg == <<"i", "m", "a", "g", "e", "/", "j", "p", "e", "g">>
MimeText == <<"t", "e", "x", "t", "/", "p", "l", "a", "i", "n">>
MimeUpper == <<"I", "m", "a", "g", "e", "/", "p", "n", "g">>
MimeBare == <<"i", "m", "a", "g", "e">>

ContentTypeSet ==
    { PyNone, PyChars(<<>>), PyChars(MimeJpeg), PyChars(MimeText),
      PyChars(MimeUpper), PyChars(MimeBare) }

ContentsSet ==
    { <<>>, <<255>>, <<255, 216>>, <<255, 216, 255>>, <<255, 216, 255, 224>> }

UploadSet ==
    [read_ok : BOOLEAN, contents : ContentsSet, content_type : ContentTypeSet]

(***************************************************************************)
(* process_image_to_json (image_processor.py)                              *)
(***************************************************************************)
\* how a piece of code ends: it returns a value or an exception leaves it
Return(value) == [kind |-> "return", value |-> value]
Raise(exc) == [kind |-> "raise", exc |-> exc]
Pending == [kind |-> "none"]

\* a variant that tests `API_KEY is None`
KeyMissingIsNone(key) == key.t = "None"

\* `not API_KEY`
KeyMissing(key) == ~Truthy(key)

\* a variant that returns None for a missing key
MissingKeyResultNone == PyNone

\* the value returned when the key is missing: the pair (dict, 401)
MissingKeyResult ==
    PyTuple(<<PyDict([error |-> PyStr("API Key is missing")]), PyInt(401)>>)

\* a variant that subscripts with [-1]
LastOf(list) == list.v[Len(list.v)]

\* `list[0]`, for a list that is not empty
FirstOf(list) == list.v[1]

\* the characters of a str
RECURSIVE StrChars(_)
StrChars(str) == IF str = "" THEN <<>> ELSE <<Head(str)>> \o StrChars(Tail(str))
Chars(x) == IF x.t = "chars" THEN x.v ELSE StrChars(x.v)

\* `x.get(key, default)`: only a dict has the method
Get(x, key, default) ==
    IF IsDict(x) THEN Return(DictGet(x, key, default))
    ELSE Raise("AttributeError")

\* `x[0]`
Subscript0(x) ==
    CASE x.t \in {"list", "tuple"} ->
           IF x.v = <<>> THEN Raise("IndexError") ELSE Return(FirstOf(x))
      [] x.t \in {"str", "chars"} ->
           IF Chars(x) = <<>> THEN Raise("IndexError")
           ELSE Return(PyChars(<<Head(Chars(x))>>))
      [] x.t = "dict" -> Raise("KeyError")            \* the keys of a document are strs
      [] OTHER -> Raise("TypeError")

\* `x[key]` for a str key
SubscriptKey(x, key) ==
    IF IsDict(x)
    THEN IF key \in DOMAIN x.v THEN Return(x.v[key]) ELSE Raise("KeyError")
    ELSE Raise("TypeError")

\* `json.loads(x)`: the decoded value, json.JSONDecodeError, or TypeError
\* for what is not a str
loads(x) ==
    IF x.t \notin {"str", "chars"} THEN Raise("TypeError")
    ELSE IF json_loads(Chars(x)).ok THEN Return(json_loads(Chars(x)).val)
    ELSE Raise("JSONDecodeError")

\* a variant whose default has no candidate
CandidatesDefaultEmpty == PyList(<<>>)

\* the default of `result.get('candidates', [{}])`
CandidatesDefault == PyList(<<EmptyDict>>)

\* the body of the try block, for what requests.post brought: the value it
\* returns or the exception that leaves it
TryBody(response) ==
    IF response.kind = "error" THEN Raise("RequestException")
    ELSE IF response.status_code >= 400 /\ response.status_code < 600
    THEN Raise("HTTPError")                                       \* raise_for_status()
    ELSE IF ~response.body.json THEN Raise("RequestsJSONDecodeError") \* response.json()
    ELSE
    LET result == response.body.doc
        candidates == Get(result, "candidates", CandidatesDefault)
    IN
    IF candidates.kind = "raise" THEN candidates ELSE
    LET first == Subscript0(candidates.value) IN
    IF first.kind = "raise" THEN first ELSE
    LET candidate == first.value IN
    IF ~Truthy(candidate) THEN Return(PyNone) ELSE
    LET content == Get(candidate, "content", PyNone) IN
    IF content.kind = "raise" THEN content ELSE
    IF ~Truthy(content.value) THEN Return(PyNone) ELSE
    LET parts == Get(content.value, "parts", PyNone) IN
    IF parts.kind = "raise" THEN parts ELSE
    IF ~Truthy(parts.value) THEN Return(PyNone) ELSE
    LET part == Subscript0(parts.value) IN
    IF part.kind = "raise" THEN part ELSE
    LET json_string == SubscriptKey(part.value, "text") IN
    IF json_string.kind = "raise" THEN json_string
    ELSE loads(json_string.value)

\* a variant that retries whatever the status is
ShouldRetryAnyStatus(status_code, attempt_, max_retries_) ==
    attempt_ < max_retries_ - 1

\* a variant that does not look at the attempts that remain
ShouldRetryNoCeiling(status_code, attempt_, max_retries_) ==
    status_code \in {429, 500, 503}

\* a variant that gives up one attempt early
ShouldRetryGivesUpEarly(status_code, attempt_, max_retries_) ==
    status_code \in {429, 500, 503} /\ attempt_ < max_retries_ - 2

\* the condition of the retry branch of `except HTTPError`
ShouldRetry(status_code, attempt_, max_retries_) ==
    status_code \in {429, 500, 503} /\ attempt_ < max_retries_ - 1

\* a variant that waits 2 ** (attempt + 1)
BackoffWaitNext(attempt_) == 2 ^ (attempt_ + 1)

\* a variant that grows by one time unit per attempt
BackoffWaitLinear(attempt_) == attempt_ + 1

\* wait_time = 2 ** attempt
BackoffWait(attempt_) == 2 ^ attempt_

\* a variant that retries a network-level failure while attempts remain
IterationRetriesNetwork(response, attempt_, max_retries_) ==
    LET body == TryBody(response) IN
    IF body.kind = "return" THEN body
    ELSE IF body.exc = "HTTPError"
    THEN IF ShouldRetry(response.status_code, attempt_, max_retries_)
         THEN [kind |-> "sleep", wait_time |-> BackoffWait(attempt_)]
         ELSE Return(PyNone)
    ELSE IF body.exc = "RequestException" /\ attempt_ < max_retries_ - 1
    THEN [kind |-> "sleep", wait_time |-> BackoffWait(attempt_)]
    ELSE IF body.exc \in {"RequestException", "RequestsJSONDecodeError"}
    THEN Return(PyNone)
    ELSE IF body.exc = "JSONDecodeError" THEN Return(PyNone)
    ELSE body

\* a variant without the `except json.JSONDecodeError` clause
IterationNoDecodeClause(response, attempt_, max_retries_) ==
    LET body == TryBody(response) IN
    IF body.kind = "return" THEN body
    ELSE IF body.exc = "HTTPError"
    THEN IF ShouldRetry(response.status_code, attempt_, max_retries_)
         THEN [kind |-> "sleep", wait_time |-> BackoffWait(attempt_)]
         ELSE Return(PyNone)
    ELSE IF body.exc \in {"RequestException", "RequestsJSONDecodeError"}
    THEN Return(PyNone)
    ELSE body

\* one iteration of the loop after requests.post: the try body and the except
\* clauses.  [kind |-> "sleep"] stands for the branch that sleeps and iterates.
Iteration(response, attempt_, max_retries_) ==
    LET body == TryBody(response) IN
    IF body.kind = "return" THEN body
    ELSE IF body.exc = "HTTPError"
    THEN IF ShouldRetry(response.status_code, attempt_, max_retries_)
         THEN [kind |-> "sleep", wait_time |-> BackoffWait(attempt_)]
         ELSE Return(PyNone)
    ELSE IF body.exc \in {"RequestException", "RequestsJSONDecodeError"}
    THEN Return(PyNone)                                 \* except RequestException
    ELSE IF body.exc = "JSONDecodeError" THEN Return(PyNone)
    ELSE body                                           \* no clause catches it

(***************************************************************************)
(* extract_id_data (api.py)                                                *)
(***************************************************************************)
RECURSIVE IsPrefix(_, _)
IsPrefix(p, s) ==
    \/ p = <<>>
    \/ s # <<>> /\ Head(p) = Head(s) /\ IsPrefix(Tail(p), Tail(s))

\* a variant that accepts every content type that is present
IsImageTypeAnyType(mime_type) == Truthy(mime_type)

\* `mime_type and mime_type.startswith("image/")`
IsImageType(mime_type) ==
    /\ Truthy(mime_type)
    /\ IsPrefix(<<"i", "m", "a", "g", "e", "/">>, mime_type.v)

\* f"{mime_type}"
Format(mime_type) == IF mime_type.t = "None" THEN "None" ELSE Join(mime_type.v)

\* the response FastAPI sends for `raise HTTPException(status_code, detail)`
HTTPException(status_code, detail) ==
    [status_code |-> status_code, body |-> PyDict([detail |-> detail])]

\* the response sent when an exception other than HTTPException leaves the handler
UnhandledError == [status_code |-> 500, body |-> PyStr("Internal Server Error")]

\* the JSON rendering of a returned value: a tuple becomes a list
RECURSIVE jsonable_encoder(_)
jsonable_encoder(x) ==
    IF x.t = "dict" THEN PyDict([k \in DOMAIN x.v |-> jsonable_encoder(x.v[k])])
    ELSE IF x.t \in {"list", "tuple"}
    THEN PyList([i \in 1 .. Len(x.v) |-> jsonable_encoder(x.v[i])])
    ELSE x

\* a variant that passes base64_data on without looking at it
CheckUploadNoEncodingCheck(f) ==
    IF ~f.read_ok
    THEN HTTPException(500, PyStr("Could not read file content."))
    ELSE IF ~IsImageType(f.content_type)
    THEN HTTPException(400, PyStr("Invalid file type: " \o Format(f.content_type)
                                  \o ". Only image files are supported."))
    ELSE Pending

\* steps 1-3 of the handler: the response it raises, or Pending when it goes
\* on to call process_image_to_json
CheckUpload(f) ==
    IF ~f.read_ok
    THEN HTTPException(500, PyStr("Could not read file content."))
    ELSE IF ~IsImageType(f.content_type)
    THEN HTTPException(400, PyStr("Invalid file type: " \o Format(f.content_type)
                                  \o ". Only image files are supported."))
    ELSE IF ~Truthy(bytes_to_base64(f.contents))
    THEN HTTPException(500, PyStr("Failed to encode image data for API submission."))
    ELSE Pending

\* json.dumps(content, allow_nan=False) of the response class accepts x: no
\* nan, inf or -inf in it
RECURSIVE Finite(_)
Finite(x) ==
    CASE x.t = "float" -> x.v.den # 0
      [] x.t = "dict" -> \A k \in DOMAIN x.v : Finite(x.v[k])
      [] x.t \in {"list", "tuple"} -> \A i \in 1 .. Len(x.v) : Finite(x.v[i])
      [] OTHER -> TRUE

\* the response sent for `response`: rendering a body that is not finite
\* raises ValueError, which is answered as an unhandled error
JSONResponse(response) ==
    IF Finite(response.body) THEN response ELSE UnhandledError

\* `isinstance(structured_result, dict) and structured_result.get('error')`
IsErrorResult(structured_result) ==
    /\ IsDict(structured_result)
    /\ Truthy(DictGet(structured_result, "error", PyNone))

\* a variant that returns whatever is not an error result
HandleResultNoFallback(structured_result) ==
    JSONResponse(
    IF IsErrorResult(structured_result)
    THEN HTTPException(401, DictGet(structured_result, "error",
                            PyStr("Authentication failed or API key missing.")))
    ELSE [status_code |-> 200, body |-> jsonable_encoder(structured_result)])

\* the handler after the call: the mapping of structured_result to a response
HandleResult(structured_result) ==
    JSONResponse(
    IF IsErrorResult(structured_result)
    THEN HTTPException(401, DictGet(structured_result, "error",
                            PyStr("Authentication failed or API key missing.")))
    ELSE IF Truthy(structured_result)
    THEN [status_code |-> 200, body |-> jsonable_encoder(structured_result)]
    ELSE HTTPException(503, PyStr("Gemini API call failed or returned an unstructured response after multiple retries.")))

(***************************************************************************)
(* State.                                                                  *)
(***************************************************************************)
VARIABLES
    API_KEY,      \* the module's configuration, read once at import
    caller,       \* "none", "api" (extract_id_data) or "direct"
    file,         \* the upload of the POST /extract request
    max_retries,  \* argument of process_image_to_json
    pc,           \* "idle", "check_key", "for", "post", "sleep", "done", "responded"
    attempt,      \* the loop variable
    wait_time,    \* the pending sleep
    outcome,      \* how process_image_to_json ended
    trace,        \* the calls, network attempts and sleeps so far
    reply,        \* the HTTP response of POST /extract
    main          \* the call of main.py's process_image_to_json: its pc,
                  \* attempt, wait_time, outcome and trace

vars == <<API_KEY, caller, file, max_retries, pc, attempt, wait_time, outcome,
          trace, reply, main>>

NoUpload == [none |-> TRUE]
NoReply == [status_code |-> 0]

Called(mr) == [e |-> "call", max_retries |-> mr]
Posted(response) == [e |-> "post", response |-> response]
Slept(seconds) == [e |-> "sleep", seconds |-> seconds]

\* main.py's function has not been called
MainIdle ==
    [pc |-> "idle", attempt |-> 0, wait_time |-> 0, outcome |-> Pending, trace |-> <<>>]

Init ==
    /\ API_KEY \in KeySet
    /\ caller = "none"
    /\ file = NoUpload
    /\ max_retries = DefaultMaxRetries
    /\ pc = "idle"
    /\ attempt = 0
    /\ wait_time = 0
    /\ outcome = Pending
    /\ trace = <<>>
    /\ reply = NoReply
    /\ main = MainIdle

\* POST /extract arrives: the handler up to the call of process_image_to_json
extract_id_data(f) ==
    /\ pc = "idle"
    /\ caller' = "api"
    /\ file' = f
    /\ IF CheckUpload(f) = Pending
       THEN /\ pc' = "check_key"
            /\ max_retries' = DefaultMaxRetries
            /\ trace' = Append(trace, Called(DefaultMaxRetries))
            /\ reply' = reply
       ELSE /\ pc' = "responded"
            /\ reply' = CheckUpload(f)
            /\ UNCHANGED <<max_retries, trace>>
    /\ UNCHANGED <<main, API_KEY, attempt, wait_time, outcome>>

\* process_image_to_json is called with an explicit max_retries
process_image_to_json(mr) ==
    /\ pc = "idle"
    /\ caller' = "direct"
    /\ max_retries' = mr
    /\ pc' = "check_key"
    /\ trace' = Append(trace, Called(mr))
    /\ UNCHANGED <<main, API_KEY, file, attempt, wait_time, outcome, reply>>

\* step 1: the API key check
CheckKey ==
    /\ pc = "check_key"
    /\ IF KeyMissing(API_KEY)
       THEN outcome' = Return(MissingKeyResult) /\ pc' = "done"
       ELSE outcome' = outcome /\ pc' = "for"
    /\ UNCHANGED <<main, API_KEY, caller, file, max_retries, attempt, wait_time, trace, reply>>

\* a variant that iterates over range(max_retries + 1)
ForLoopInclusive ==
    /\ pc = "for"
    /\ IF attempt <= max_retries
       THEN outcome' = outcome /\ pc' = "post"
       ELSE outcome' = Return(PyNone) /\ pc' = "done"
    /\ UNCHANGED <<main, API_KEY, caller, file, max_retries, attempt, wait_time, trace, reply>>

\* a variant whose loop has no upper bound on its own
ForLoopNoBound ==
    /\ pc = "for"
    /\ outcome' = outcome /\ pc' = "post"
    /\ UNCHANGED <<main, API_KEY, caller, file, max_retries, attempt, wait_time, trace, reply>>

\* `for attempt in range(max_retries)`: the next iteration, or the code after
\* the loop
ForLoop ==
    /\ pc = "for"
    /\ IF attempt < max_retries
       THEN outcome' = outcome /\ pc' = "post"
       ELSE outcome' = Return(PyNone) /\ pc' = "done"
    /\ UNCHANGED <<main, API_KEY, caller, file, max_retries, attempt, wait_time, trace, reply>>

\* requests.post completes with `response` and the iteration handles it
Post(response) ==
    /\ pc = "post"
    /\ trace' = Append(trace, Posted(response))
    /\ LET it == Iteration(response, attempt, max_retries) IN
       IF it.kind = "sleep"
       THEN wait_time' = it.wait_time /\ pc' = "sleep" /\ outcome' = outcome
       ELSE wait_time' = wait_time /\ pc' = "done" /\ outcome' = it
    /\ UNCHANGED <<main, API_KEY, caller, file, max_retries, attempt, reply>>

\* time.sleep(wait_time) returns; the loop goes to its next iteration
Sleep ==
    /\ pc = "sleep"
    /\ trace' = Append(trace, Slept(wait_time))
    /\ attempt' = attempt + 1
    /\ pc' = "for"
    /\ UNCHANGED <<main, API_KEY, caller, file, max_retries, wait_time, outcome, reply>>

\* the handler after process_image_to_json ended
Respond ==
    /\ pc = "done"
    /\ caller = "api"
    /\ reply' = IF outcome.kind = "raise" THEN UnhandledError
                ELSE HandleResult(outcome.value)
    /\ pc' = "responded"
    /\ UNCHANGED <<main, API_KEY, caller, file, max_retries, attempt, wait_time, outcome, trace>>

Next ==
    \/ \E f \in UploadSet : extract_id_data(f)
    \/ \E mr \in RetriesSet : process_image_to_json(mr)
    \/ CheckKey
    \/ ForLoop
    \/ \E response \in ResponseSet : Post(response)
    \/ Sleep
    \/ Respond

Spec == Init /\ [][Next]_vars

(***************************************************************************)
(* Observations on a run.                                                  *)
(***************************************************************************)
Posts == SelectSeq(trace, LAMBDA ev : ev.e = "post")
Sleeps == SelectSeq(trace, LAMBDA ev : ev.e = "sleep")
Calls == SelectSeq(trace, LAMBDA ev : ev.e = "call")

\* the network attempts made so far and the delays slept so far
Attempts == Len(Posts)
Delays == [i \in 1 .. Len(Sleeps) |-> Sleeps[i].seconds]

TypeOK ==
    /\ pc \in {"idle", "check_key", "for", "post", "sleep", "done", "responded"}
    /\ caller \in {"none", "api", "direct"}
    /\ attempt \in Nat
    /\ API_KEY \in KeySet

(***************************************************************************)
(* Vocabulary of the properties, written from the inputs and the trace     *)
(* only.                                                                   *)
(***************************************************************************)
\* process_image_to_json was called; it has ended
Invoked == Calls # <<>>
Finished == outcome.kind # "none"

KeyAbsent == API_KEY.v = ""
KeyPresent == API_KEY.v # ""

TransientStatuses == {429, 500, 503}

IsTransient(r) == r.kind = "http" /\ r.status_code \in TransientStatuses
IsFatalStatus(r) ==
    /\ r.kind = "http" /\ r.status_code \in 400 .. 599
    /\ r.status_code \notin TransientStatuses
\* a response whose status is not an HTTP error (4xx, 5xx), carrying one of docs
IsSuccessWith(r, docs) ==
    /\ r.kind = "http" /\ r.status_code \notin 400 .. 599
    /\ r.body.json /\ r.body.doc \in docs

LastResponse == Posts[Len(Posts)].response

\* the delays 1, 2, 4, 8, ...
Doubling == <<1, 2, 4, 8, 16, 32, 64, 128>>

\* the texts that are valid JSON, and the value of each
ValidTexts ==
    { TxtPerson, TxtEmptyObject, TxtErrorField, TxtErrorBlank, TxtNull, TxtList, TxtZero,
      TxtNaN, TxtInfinityField, TxtPretty }

Decoded(text) ==
    CASE text = TxtPerson -> PersonValue
      [] text = TxtEmptyObject -> PyDict(<<>>)
      [] text = TxtErrorField -> ErrorFieldValue
      [] text = TxtErrorBlank -> ErrorBlankValue
      [] text = TxtNull -> PyNone
      [] text = TxtList -> ListValue
      [] text = TxtZero -> PyInt(0)
      [] text = TxtNaN -> NaN
      [] text = TxtInfinityField -> InfinityFieldValue
      [] text = TxtPretty -> PrettyValue

\* the text of the first part of the first candidate, for the documents that
\* have one
FirstText(doc) == IF doc = DocTwoCandidates THEN TxtPerson
                  ELSE doc.v["candidates"].v[1].v["content"].v["parts"].v[1].v["text"].v

\* documents whose first candidate's first part carries valid JSON
ValidDocs == { DocText(t) : t \in ValidTexts } \cup {DocTwoCandidates}

\* documents without a first candidate that has content and parts
EmptyDocs == { DocNoCandidates, DocEmptyCandidates, DocEmptyCandidate, DocNoContent,
               DocNoParts, DocEmptyParts }

\* the request passed the handler's checks of the upload
ImageUpload ==
    /\ caller = "api"
    /\ file.read_ok
    /\ file.content_type = PyChars(MimeJpeg)
    /\ file.contents # <<>>

\* the declared content type is missing or does not begin with image/
NotImageTypes ==
    { PyNone, PyChars(<<>>), PyChars(MimeText), PyChars(MimeUpper), PyChars(MimeBare) }

\* the pair returned for a missing key
AuthPair == PyTuple(<<PyDict([error |-> PyStr("API Key is missing")]), PyInt(401)>>)

(***************************************************************************)
(* C1                                                                      *)
(***************************************************************************)
AllTransient == \A i \in 1 .. Len(Posts) : IsTransient(Posts[i].response)

\* C1: when every attempt is answered 429, 500 or 503 and max_retries >= 1,
\* the delays slept are 1, 2, 4, 8, ... (one between consecutive attempts),
\* the run ends exactly at the max_retries-th attempt, without a sleep after
\* it, and returns the failure value None.
C1_ExactlyMaxRetriesAttempts ==
    (Invoked /\ KeyPresent /\ max_retries >= 1 /\ AllTransient)
    => /\ Attempts <= max_retries
       /\ Delays = SubSeq(Doubling, 1, Len(Delays))
       /\ Len(Delays) \in {Attempts - 1, Attempts}
       /\ Len(Delays) = Attempts => pc \in {"check_key", "for", "post"}
       /\ Len(Delays) <= max_retries - 1
       /\ Finished <=> Attempts = max_retries
       /\ Finished => /\ Len(Delays) = max_retries - 1
                      /\ outcome = Return(PyNone)

C1_Witness ==
    /\ pc = "done" /\ caller = "direct" /\ KeyPresent /\ AllTransient
    /\ max_retries = 4 /\ Attempts = 4 /\ Delays = <<1, 2, 4>>

(***************************************************************************)
(* C2                                                                      *)
(***************************************************************************)
\* C2: when the API key is missing or empty, POST /extract with an image
\* upload responds 401 with an error message.
C2_MissingKeyResponds401 ==
    (pc = "responded" /\ ImageUpload /\ KeyAbsent)
    => /\ reply.status_code = 401
       /\ reply.body = PyDict([detail |-> PyStr("API Key is missing")])

(***************************************************************************)
(* C3                                                                      *)
(***************************************************************************)
\* C3: for an HTTP success response whose candidates array is empty,
\* process_image_to_json returns the failure value of the empty response; no
\* exception leaves it.
C3_EmptyCandidatesReturnsFailure ==
    (Finished /\ Attempts >= 1 /\ IsSuccessWith(LastResponse, {DocEmptyCandidates}))
    => outcome = Return(PyNone)

(***************************************************************************)
(* C4                                                                      *)
(***************************************************************************)
\* C4: with a missing or empty API key, process_image_to_json makes no
\* network call and no sleep, whatever max_retries is, and ends with the
\* authentication failure value.
C4_MissingKeyNoNetwork ==
    KeyAbsent
    => /\ Attempts = 0
       /\ Sleeps = <<>>
       /\ pc \notin {"for", "post", "sleep"}
       /\ Finished => outcome = Return(AuthPair)
       /\ (Invoked /\ pc # "check_key") => Finished

C4_Witness ==
    /\ pc = "done" /\ caller = "direct" /\ KeyAbsent /\ max_retries = 3
    /\ outcome = Return(AuthPair) /\ Len(trace) = 1

(***************************************************************************)
(* C5                                                                      *)
(***************************************************************************)
\* C5: a response with an HTTP error status other than 429, 500, 503 is the
\* last event of the run: no attempt and no sleep follows it and the run has
\* failed; when it answers the first attempt, one attempt was made and no
\* sleep.
C5_FatalStatusStops ==
    \A i \in 1 .. Len(trace) :
        (trace[i].e = "post" /\ IsFatalStatus(trace[i].response))
        => /\ i = Len(trace)
           /\ Finished
           /\ outcome = Return(PyNone)
           /\ IsFatalStatus(Posts[1].response) => Attempts = 1 /\ Sleeps = <<>>

C5_Witness ==
    /\ pc = "done" /\ max_retries = 3 /\ Attempts = 1 /\ Sleeps = <<>>
    /\ LastResponse = HttpResponse(403, OtherBody)
    /\ outcome = Return(PyNone)

(***************************************************************************)
(* C6                                                                      *)
(***************************************************************************)
\* C6: when the upstream answers with a candidate whose text is valid JSON,
\* POST /extract responds 200 with exactly the decoded value, whatever the
\* value is.
C6_SuccessResponds200 ==
    (pc = "responded" /\ ImageUpload /\ KeyPresent /\ Attempts >= 1
        /\ IsSuccessWith(LastResponse, ValidDocs))
    => reply = [status_code |-> 200,
                body |-> Decoded(FirstText(LastResponse.body.doc))]

\* a further case of C6: the text NaN decodes to nan, which the response class
\* refuses to render, and the request is answered 500
C6_NotANumberAnswered500 ==
    /\ pc = "responded" /\ ImageUpload /\ KeyPresent /\ Attempts = 1
    /\ IsSuccessWith(LastResponse, {DocText(TxtNaN)})
    /\ outcome = Return(NaN)
    /\ reply = [status_code |-> 500, body |-> PyStr("Internal Server Error")]

(***************************************************************************)
(* C7                                                                      *)
(***************************************************************************)
\* the three ways of failing
ExhaustedRun ==
    /\ Finished /\ KeyPresent /\ max_retries >= 1 /\ Attempts = max_retries
    /\ IsTransient(LastResponse)
EmptyRun ==
    /\ Finished /\ KeyPresent /\ Attempts >= 1
    /\ IsSuccessWith(LastResponse, EmptyDocs)
    /\ outcome.kind = "return"
AuthRun == Finished /\ KeyAbsent

\* what the code yields on each of them
ExhaustedOutcome ==
    Iteration(HttpResponse(503, OtherBody), DefaultMaxRetries - 1, DefaultMaxRetries)
EmptyOutcome ==
    Iteration(HttpResponse(200, JsonBody(DocNoCandidates)), 0, DefaultMaxRetries)
AuthOutcome == Return(MissingKeyResult)

\* C7 as stated: the value of each of the three failures differs from the
\* values of the other two.
C7_ThreeOutcomesDiffer ==
    /\ ExhaustedRun => outcome \notin {EmptyOutcome, AuthOutcome}
    /\ EmptyRun => outcome \notin {ExhaustedOutcome, AuthOutcome}
    /\ AuthRun => outcome \notin {ExhaustedOutcome, EmptyOutcome}

\* C7 amended: the value returned after exhausting the retries differs from
\* the value of the authentication failure, and so does the value returned
\* for an empty response; the exhausted and the empty-response values are the
\* same value, None.
C7_OnlyAuthDiffers ==
    /\ ExhaustedRun => outcome # AuthOutcome /\ outcome = EmptyOutcome
    /\ EmptyRun => outcome # AuthOutcome /\ outcome = ExhaustedOutcome
    /\ AuthRun => outcome \notin {ExhaustedOutcome, EmptyOutcome}
                  /\ outcome = Return(AuthPair)
    /\ Finished /\ outcome = Return(PyNone) => KeyPresent

C7_Witness ==
    /\ ExhaustedRun /\ max_retries = 2 /\ outcome = EmptyOutcome
    /\ outcome # AuthOutcome

(***************************************************************************)
(* C8                                                                      *)
(***************************************************************************)
\* C8 as stated: an upload whose content type is missing or does not begin
\* with image/ is answered 400, and process_image_to_json is not called.
C8_NotImageResponds400 ==
    (pc = "responded" /\ file.content_type \in NotImageTypes)
    => /\ reply.status_code = 400
       /\ Calls = <<>>
       /\ Attempts = 0

\* C8 amended: such an upload never reaches process_image_to_json or the
\* network; it is answered 400 when its body could be read, and 500 when
\* reading the body failed.
C8_NotImageNeverCalls ==
    (caller = "api" /\ file.content_type \in NotImageTypes)
    => /\ pc = "responded"
       /\ Calls = <<>>
       /\ Attempts = 0
       /\ reply.status_code = IF file.read_ok THEN 400 ELSE 500

C8_Witness ==
    /\ pc = "responded" /\ file.read_ok /\ file.content_type = PyChars(MimeText)
    /\ file.contents # <<>> /\ reply.status_code = 400 /\ trace = <<>>

(***************************************************************************)
(* C9                                                                      *)
(***************************************************************************)
\* C9: a success response whose first candidate's first part carries valid
\* JSON ends the run at that attempt, and the value returned is the text
\* decoded.
C9_ReturnsDecodedText ==
    \A i \in 1 .. Len(trace) :
        (trace[i].e = "post" /\ IsSuccessWith(trace[i].response, ValidDocs))
        => /\ i = Len(trace)
           /\ Finished
           /\ outcome = Return(Decoded(FirstText(trace[i].response.body.doc)))

C9_Witness ==
    /\ pc = "done" /\ Attempts = 2 /\ Delays = <<1>>
    /\ LastResponse = HttpResponse(200, JsonBody(DocText(TxtPerson)))
    /\ outcome = Return(PersonValue)

(***************************************************************************)
(* C10                                                                     *)
(***************************************************************************)
\* the run ended on a failure: a network failure, an HTTP error status, a
\* body that is not JSON, a document without content, or a text that is not
\* valid JSON
FailedRun ==
    /\ Attempts >= 1
    /\ \/ LastResponse = NetworkError
       \/ LastResponse.kind = "http" /\ LastResponse.status_code \in 400 .. 599
       \/ LastResponse.kind = "http" /\ LastResponse.body = OtherBody
       \/ IsSuccessWith(LastResponse, EmptyDocs)
       \/ IsSuccessWith(LastResponse, { DocText(t) : t \in TextSet \ ValidTexts })

\* C10: when process_image_to_json returned its failure value None, for an
\* empty response or any other failure, POST /extract responds 503.
C10_FailureResponds503 ==
    /\ (pc = "responded" /\ outcome = Return(PyNone))
       => /\ reply.status_code = 503
          /\ reply.body.t = "dict" /\ DOMAIN reply.body.v = {"detail"}
    /\ (pc = "responded" /\ KeyPresent /\ FailedRun /\ outcome.kind = "return")
       => outcome = Return(PyNone) /\ reply.status_code = 503

C10_Witness ==
    /\ pc = "responded" /\ FailedRun /\ outcome = Return(PyNone)
    /\ IsSuccessWith(LastResponse, {DocNoCandidates})
    /\ reply.status_code = 503

(***************************************************************************)
(* C11                                                                     *)
(***************************************************************************)
\* the endpoint answered 200 for a run that ended on a valid model result
SucceededRun ==
    /\ KeyPresent /\ Attempts >= 1
    /\ IsSuccessWith(LastResponse, ValidDocs)

\* C11: POST /extract responds 200 only when process_image_to_json succeeded
\* with a decoded model result, and then the body is that result; a failure
\* value of process_image_to_json is never the body of a 200 response.
C11_Only200OnSuccess ==
    (pc = "responded" /\ reply.status_code = 200)
    => /\ SucceededRun
       /\ reply.body = Decoded(FirstText(LastResponse.body.doc))

\* the same, for requests served with an API key configured
C11_Only200OnSuccessWithKey ==
    (pc = "responded" /\ reply.status_code = 200 /\ KeyPresent)
    => /\ SucceededRun
       /\ reply.body = Decoded(FirstText(LastResponse.body.doc))

(***************************************************************************)
(* C12                                                                     *)
(***************************************************************************)
\* the sleeps of a run, numbered from 1: sleep k comes before the attempt of
\* loop index k (0-indexed) and after the failed attempt of index k - 1

\* C12 as stated: the delay before attempt k (0-indexed) is 2^k.
C12_DelayBeforeAttempt ==
    \A k \in 1 .. Len(Delays) : Delays[k] = 2 ^ k

\* C12 amended: the delay slept after the failed attempt k (0-indexed), that
\* is before attempt k + 1, is 2^k; nothing is slept before attempt 0.
C12_DelayAfterAttempt ==
    /\ \A k \in 0 .. Len(Delays) - 1 : Delays[k + 1] = 2 ^ k
    /\ \A i \in 1 .. Len(trace) :
          trace[i].e = "sleep" => \E j \in 1 .. i - 1 : trace[j].e = "post"
    /\ pc = "sleep" => wait_time = 2 ^ (Attempts - 1)

C12_Witness ==
    /\ pc = "post" /\ attempt = 4 /\ Delays = <<1, 2, 4, 8>> /\ Attempts = 4

(***************************************************************************)
(* C13                                                                     *)
(***************************************************************************)
\* the number of network attempts among the first i events of the trace
PostsUpTo(i) == Len(SelectSeq(SubSeq(trace, 1, i), LAMBDA ev : ev.e = "post"))

\* C13: every attempt after the first comes right after a sleep, every sleep
\* comes right after an attempt answered 429, 500 or 503, and no sleep
\* follows the max_retries-th attempt.
C13_RetryOnlyOnTransient ==
    \A i \in 1 .. Len(trace) :
        /\ (trace[i].e = "post" /\ PostsUpTo(i) > 1)
           => /\ trace[i - 1].e = "sleep"
              /\ trace[i - 2].e = "post"
              /\ IsTransient(trace[i - 2].response)
        /\ trace[i].e = "sleep"
           => /\ trace[i - 1].e = "post"
              /\ IsTransient(trace[i - 1].response)
              /\ PostsUpTo(i) < max_retries

C13_Witness ==
    /\ pc = "done" /\ max_retries = 3 /\ Attempts = 3 /\ Len(Sleeps) = 2
    /\ trace[Len(trace)].e = "post"
    /\ LastResponse = HttpResponse(500, OtherBody)

(***************************************************************************)
(* C14                                                                     *)
(***************************************************************************)
\* A call that was started runs on: every network call returns, every sleep
\* ends, and the steps in between are taken.
FairSpec ==
    /\ Spec
    /\ WF_vars(CheckKey)
    /\ WF_vars(ForLoop)
    /\ WF_vars(\E response \in ResponseSet : Post(response))
    /\ WF_vars(Sleep)
    /\ WF_vars(Respond)

\* the ceiling on the attempts of the current call
Ceiling == IF max_retries > 0 THEN max_retries ELSE 0

\* C14: process_image_to_json, once called, ends, whatever the upstream
\* answers; it never makes more than max_retries network attempts, and once
\* the ceiling is reached it has ended and has not scheduled another sleep.
C14_TerminatesWithinCeiling ==
    /\ [](Invoked => Attempts <= Ceiling)
    /\ []((Invoked /\ max_retries >= 1 /\ Attempts = max_retries)
          => (Finished /\ trace[Len(trace)].e = "post"))
    /\ (Invoked ~> Finished)

C14_Witness ==
    /\ Finished /\ pc = "responded" /\ Attempts = 5 /\ max_retries = 5
    /\ Len(Sleeps) = 4 /\ reply.status_code = 503

(***************************************************************************)
(* C15                                                                     *)
(***************************************************************************)
\* every attempt before the last one was answered 429, 500 or 503
EarlierTransient ==
    \A i \in 1 .. Len(Posts) - 1 : IsTransient(Posts[i].response)

\* C15: after j - 1 attempts answered 429, 500 or 503, with j <= max_retries,
\* the call is still running, so attempt j is made; and when attempt j is
\* answered with valid JSON the call returns the decoded value after exactly
\* j attempts and j - 1 sleeps of 1, 2, 4, ...
C15_TransientFailuresMasked ==
    /\ (Invoked /\ KeyPresent /\ AllTransient /\ Attempts < max_retries)
       => ~Finished
    /\ (Invoked /\ KeyPresent /\ Attempts >= 1 /\ EarlierTransient
           /\ IsSuccessWith(LastResponse, ValidDocs))
       => /\ Finished
          /\ outcome = Return(Decoded(FirstText(LastResponse.body.doc)))
          /\ Attempts <= max_retries
          /\ Len(Sleeps) = Attempts - 1
          /\ Delays = SubSeq(Doubling, 1, Attempts - 1)
          /\ trace[Len(trace)].e = "post"

C15_Witness ==
    /\ pc = "done" /\ max_retries = 4 /\ Attempts = 4 /\ Delays = <<1, 2, 4>>
    /\ EarlierTransient
    /\ LastResponse = HttpResponse(200, JsonBody(DocText(TxtList)))
    /\ outcome = Return(ListValue)

(***************************************************************************)
(* C16                                                                     *)
(***************************************************************************)
\* C16: a network-level failure of requests.post is the last event of the
\* call, on whichever attempt it happens: no attempt and no sleep follows
\* it, and the call returns the failure value None.
C16_NetworkFailureIsFatal ==
    \A i \in 1 .. Len(trace) :
        (trace[i].e = "post" /\ trace[i].response = NetworkError)
        => /\ i = Len(trace)
           /\ Finished
           /\ outcome = Return(PyNone)

C16_Witness ==
    /\ pc = "done" /\ max_retries = 4 /\ Attempts = 2 /\ Delays = <<1>>
    /\ LastResponse = NetworkError
    /\ outcome = Return(PyNone)

(***************************************************************************)
(* C17                                                                     *)
(***************************************************************************)
\* the texts that are not valid JSON
InvalidTexts == { TxtTruncated, TxtProse, TxtBlank }

\* C17: a success response whose candidate text is not valid JSON is the last
\* event of the call, on whichever attempt it happens: no attempt and no
\* sleep follows it, and the call returns the failure value None.
C17_ParseFailureIsFatal ==
    \A i \in 1 .. Len(trace) :
        (trace[i].e = "post"
            /\ IsSuccessWith(trace[i].response, { DocText(t) : t \in InvalidTexts }))
        => /\ i = Len(trace)
           /\ Finished
           /\ outcome = Return(PyNone)

C17_Witness ==
    /\ pc = "done" /\ max_retries = 4 /\ Attempts = 3 /\ Delays = <<1, 2>>
    /\ LastResponse = HttpResponse(200, JsonBody(DocText(TxtTruncated)))
    /\ outcome = Return(PyNone)

(***************************************************************************)
(* C18                                                                     *)
(***************************************************************************)
\* documents with no candidates field, or whose first candidate has no
\* content or no parts
NoResultDocs ==
    { DocNoCandidates, DocEmptyCandidate, DocNoContent, DocNoParts, DocEmptyParts }

\* C18: a success response whose document has no candidates field, or whose
\* first candidate has no content or no parts, is the last event of the call:
\* no attempt and no sleep follows it, no exception is raised, and the call
\* returns the value of the empty response, None.
C18_NoResultStops ==
    \A i \in 1 .. Len(trace) :
        (trace[i].e = "post" /\ IsSuccessWith(trace[i].response, NoResultDocs))
        => /\ i = Len(trace)
           /\ Finished
           /\ outcome = Return(PyNone)

C18_Witness ==
    /\ pc = "done" /\ max_retries = 2 /\ Attempts = 1 /\ Sleeps = <<>>
    /\ LastResponse = HttpResponse(200, JsonBody(DocNoCandidates))
    /\ outcome = Return(PyNone)

(***************************************************************************)
(* process_image_to_json of main.py, the near-duplicate of the function of *)
(* image_processor.py.  It is run on the arguments, the API key and the    *)
(* upstream responses of a finished direct call of the other function: its *)
(* k-th requests.post brings the response the k-th post of that call       *)
(* brought.                                                                *)
(***************************************************************************)
\* `not API_KEY`
main_KeyMissing(key) == ~Truthy(key)

\* the value returned when the key is missing
main_MissingKeyResult == PyNone

\* the body of the try block
main_TryBody(response) ==
    IF response.kind = "error" THEN Raise("RequestException")
    ELSE IF response.status_code >= 400 /\ response.status_code < 600
    THEN Raise("HTTPError")                                       \* raise_for_status()
    ELSE IF ~response.body.json THEN Raise("RequestsJSONDecodeError") \* response.json()
    ELSE
    LET result == response.body.doc
        candidates == Get(result, "candidates", PyList(<<EmptyDict>>))
    IN
    IF candidates.kind = "raise" THEN candidates ELSE
    LET first == Subscript0(candidates.value) IN
    IF first.kind = "raise" THEN first ELSE
    LET candidate == first.value IN
    IF ~Truthy(candidate) THEN Return(PyNone) ELSE
    LET content == Get(candidate, "content", PyNone) IN
    IF content.kind = "raise" THEN content ELSE
    IF ~Truthy(content.value) THEN Return(PyNone) ELSE
    LET parts == Get(content.value, "parts", PyNone) IN
    IF parts.kind = "raise" THEN parts ELSE
    IF ~Truthy(parts.value) THEN Return(PyNone) ELSE
    LET part == Subscript0(parts.value) IN
    IF part.kind = "raise" THEN part ELSE
    LET json_string == SubscriptKey(part.value, "text") IN
    IF json_string.kind = "raise" THEN json_string
    ELSE loads(json_string.value)

\* a variant that also retries on 502
main_ShouldRetryOn502(status_code, attempt_, max_retries_) ==
    status_code \in {429, 500, 502, 503} /\ attempt_ < max_retries_ - 1

\* the condition of the retry branch of `except HTTPError`
main_ShouldRetry(status_code, attempt_, max_retries_) ==
    status_code \in {429, 500, 503} /\ attempt_ < max_retries_ - 1

\* wait_time = 2 ** attempt
main_BackoffWait(attempt_) == 2 ^ attempt_

\* one iteration of the loop after requests.post
main_Iteration(response, attempt_, max_retries_) ==
    LET body == main_TryBody(response) IN
    IF body.kind = "return" THEN body
    ELSE IF body.exc = "HTTPError"
    THEN IF main_ShouldRetry(response.status_code, attempt_, max_retries_)
         THEN [kind |-> "sleep", wait_time |-> main_BackoffWait(attempt_)]
         ELSE Return(PyNone)
    ELSE IF body.exc \in {"RequestException", "RequestsJSONDecodeError"}
    THEN Return(PyNone)
    ELSE IF body.exc = "JSONDecodeError" THEN Return(PyNone)
    ELSE body

\* the network attempts main.py's call has made
MainAttempts == Len(SelectSeq(main.trace, LAMBDA ev : ev.e = "post"))

\* main.py's function is called with the arguments of the finished call
main_process_image_to_json ==
    /\ pc = "done" /\ caller = "direct"
    /\ main.pc = "idle"
    /\ main' = [main EXCEPT !.pc = "check_key",
                            !.trace = Append(@, Called(max_retries))]
    /\ UNCHANGED <<API_KEY, caller, file, max_retries, pc, attempt, wait_time,
                   outcome, trace, reply>>

\* step 1: the API key check
main_CheckKey ==
    /\ main.pc = "check_key"
    /\ main' = IF main_KeyMissing(API_KEY)
               THEN [main EXCEPT !.pc = "done", !.outcome = Return(main_MissingKeyResult)]
               ELSE [main EXCEPT !.pc = "for"]
    /\ UNCHANGED <<API_KEY, caller, file, max_retries, pc, attempt, wait_time,
                   outcome, trace, reply>>

\* `for attempt in range(max_retries)`, or the code after the loop
main_ForLoop ==
    /\ main.pc = "for"
    /\ main' = IF main.attempt < max_retries
               THEN [main EXCEPT !.pc = "post"]
               ELSE [main EXCEPT !.pc = "done", !.outcome = Return(PyNone)]
    /\ UNCHANGED <<API_KEY, caller, file, max_retries, pc, attempt, wait_time,
                   outcome, trace, reply>>

\* requests.post completes with the response the other call got on the same
\* attempt, and the iteration handles it
main_Post ==
    /\ main.pc = "post"
    /\ MainAttempts < Attempts
    /\ LET response == Posts[MainAttempts + 1].response
           it == main_Iteration(response, main.attempt, max_retries)
       IN  main' = IF it.kind = "sleep"
                   THEN [main EXCEPT !.pc = "sleep", !.wait_time = it.wait_time,
                                     !.trace = Append(@, Posted(response))]
                   ELSE [main EXCEPT !.pc = "done", !.outcome = it,
                                     !.trace = Append(@, Posted(response))]
    /\ UNCHANGED <<API_KEY, caller, file, max_retries, pc, attempt, wait_time,
                   outcome, trace, reply>>

\* time.sleep(wait_time) returns
main_Sleep ==
    /\ main.pc = "sleep"
    /\ main' = [main EXCEPT !.pc = "for", !.attempt = @ + 1,
                            !.trace = Append(@, Slept(main.wait_time))]
    /\ UNCHANGED <<API_KEY, caller, file, max_retries, pc, attempt, wait_time,
                   outcome, trace, reply>>

NextBoth ==
    \/ Next
    \/ main_process_image_to_json
    \/ main_CheckKey
    \/ main_ForLoop
    \/ main_Post
    \/ main_Sleep

SpecBoth == Init /\ [][NextBoth]_vars

(***************************************************************************)
(* C19                                                                     *)
(***************************************************************************)
\* C19: run on the same arguments and the same upstream responses, the two
\* functions make the same network attempts and the same sleeps, in the same
\* order; with an API key they end with the same value, and without one the
\* function of main.py returns None where the other returns the pair.
C19_SameAttemptsAndResult ==
    /\ main.trace = SubSeq(trace, 1, Len(main.trace))
    /\ main.pc = "post" => MainAttempts < Attempts
    /\ main.pc = "sleep" => /\ Len(trace) > Len(main.trace)
                            /\ trace[Len(main.trace) + 1] = Slept(main.wait_time)
    /\ main.pc = "done"
       => /\ main.trace = trace
          /\ IF KeyPresent
             THEN main.outcome = outcome
             ELSE main.outcome = Return(PyNone) /\ outcome = Return(AuthPair)

C19_Witness ==
    /\ main.pc = "done" /\ KeyPresent /\ max_retries = 4
    /\ MainAttempts = 3 /\ Len(main.trace) = 6
    /\ main.outcome = Return(PersonValue) /\ outcome = Return(PersonValue)

(***************************************************************************)
(* C20                                                                     *)
(***************************************************************************)
\* C20: with an API key and max_retries <= 0 the call makes no network
\* attempt and no sleep and returns None; the loop runs out, so that the
\* `return None` after it is reached, only in this case: with
\* max_retries >= 1 the call has always ended before the loop could run out,
\* and a call that ended has made at least one attempt.
C20_AfterLoopOnlyWithoutRetries ==
    /\ (Invoked /\ KeyPresent /\ max_retries <= 0)
       => /\ Attempts = 0
          /\ Sleeps = <<>>
          /\ pc \in {"check_key", "for", "done"}
          /\ Finished => outcome = Return(PyNone)
    /\ (Invoked /\ KeyPresent /\ max_retries >= 1)
       => /\ pc = "for" => attempt < max_retries
          /\ Finished => Attempts >= 1 /\ trace[Len(trace)].e = "post"

C20_Witness ==
    /\ pc = "done" /\ caller = "direct" /\ KeyPresent /\ max_retries = -1
    /\ trace = <<Called(-1)>> /\ outcome = Return(PyNone)

(***************************************************************************)
(* C21                                                                     *)
(***************************************************************************)
\* the declared content type begins with image/
ImageTypes == ContentTypeSet \ NotImageTypes

EncodingFailure ==
    /\ reply.status_code = 500
    /\ reply.body = PyDict([detail |->
           PyStr("Failed to encode image data for API submission.")])

ReadFailure ==
    /\ reply.status_code = 500
    /\ reply.body = PyDict([detail |-> PyStr("Could not read file content.")])

\* C21 as stated: an upload of an image type with an empty body is answered
\* 500 (encoding failure) without a call of process_image_to_json or a
\* network attempt, and one with a non-empty body has process_image_to_json
\* called exactly once.
C21_EmptyBody500ElseCalledOnce ==
    (caller = "api" /\ file.content_type \in ImageTypes)
    => IF file.contents = <<>>
       THEN pc = "responded" /\ EncodingFailure /\ Calls = <<>> /\ Attempts = 0
       ELSE Len(Calls) = 1

\* C21 amended: this holds of the uploads whose body could be read; when
\* reading the body failed the request is answered 500 (read failure) and
\* process_image_to_json is not called, whatever the body is.
C21_ReadableEmptyBody500ElseCalledOnce ==
    (caller = "api" /\ file.content_type \in ImageTypes)
    => IF ~file.read_ok
       THEN pc = "responded" /\ ReadFailure /\ Calls = <<>> /\ Attempts = 0
       ELSE IF file.contents = <<>>
       THEN pc = "responded" /\ EncodingFailure /\ Calls = <<>> /\ Attempts = 0
       ELSE Calls = <<Called(DefaultMaxRetries)>>

C21_Witness ==
    /\ pc = "responded" /\ caller = "api" /\ file.read_ok
    /\ file.content_type = PyChars(MimeJpeg) /\ file.contents = <<>>
    /\ EncodingFailure /\ trace = <<>>

\* the other case of C21: a readable image of three bytes, answered after one call
C21_CalledOnce ==
    /\ pc = "responded" /\ caller = "api" /\ file.read_ok
    /\ file.content_type = PyChars(MimeJpeg)
    /\ file.contents = <<255, 216, 255>>
    /\ Calls = <<Called(DefaultMaxRetries)>> /\ reply.status_code = 200
====
